---------------------------- MODULE Spec2Model ----------------------------
(***************************************************************************)
(* A model of VZD_KK_download.py: the catalog client (get_territory_list), *)
(* the shapefile merger (merge_shapefiles), the download / extract /       *)
(* merge / package run (process_territories) and the page script with its  *)
(* "Download and Merge" button handler.                                    *)
(*                                                                         *)
(* Python strings are sequences of one-character strings, so that upper(), *)
(* lower(), endswith(), startswith(), "in", rsplit() and replace() are     *)
(* computed character by character, as the interpreter computes them.      *)
(***************************************************************************)
EXTENDS Integers, Sequences, FiniteSets, TLC

VARIABLES
    response,       \* the catalog endpoint's answer to the GET of line 28
    resources,      \* get_territory_list's return value (name -> url)
    cpc,            \* catalog client: "call" before, "done" after the call
    disk,           \* merge_shapefiles: the files on disk when it is called
    fs,             \* the files on disk now (path -> content)
    file_paths,     \* merge_shapefiles' first argument
    ret,            \* merge_shapefiles' return value
    mpc,            \* merger: "call" before, "done" after the call
    net,            \* what the GET of each resource url answers (line 130)
    selected_names, \* process_territories' arguments
    resource_map,
    selected_types,
    idx,            \* the download loop's position (1-based)
    parcels_to_merge,
    buildings_to_merge,
    files_created,
    zip_data,       \* process_territories' return value
    calls,          \* network requests made since the script run began
    rpc,            \* where process_territories is
    cache,          \* st.cache_data's entry for get_territory_list
    rendered,       \* whether the last script run drew the controls
    w_sel,          \* the territories selected (selected_territories)
    w_types,        \* the data types selected (data_types)
    clicked,        \* whether the button started the last script run
    message,        \* what the last script run told the user
    upc             \* page: "idle" between script runs, "running" in a run

catVars == <<response, resources, cpc>>
mergeVars == <<disk, file_paths, ret, mpc>>
runVars == <<net, selected_names, resource_map, selected_types, idx,
             parcels_to_merge, buildings_to_merge, files_created, zip_data,
             calls, rpc>>
uiVars == <<cache, rendered, w_sel, w_types, clicked, message, upc>>

---------------------------------------------------------------------------
(* Strings *)

Lowers == <<"a","b","c","d","e","f","g","h","i","j","k","l","m",
            "n","o","p","q","r","s","t","u","v","w","x","y","z">>
Uppers == <<"A","B","C","D","E","F","G","H","I","J","K","L","M",
            "N","O","P","Q","R","S","T","U","V","W","X","Y","Z">>

LowerChar(c) ==
    IF \E i \in 1..Len(Uppers) : Uppers[i] = c
    THEN Lowers[CHOOSE i \in 1..Len(Uppers) : Uppers[i] = c]
    ELSE c

UpperChar(c) ==
    IF \E i \in 1..Len(Lowers) : Lowers[i] = c
    THEN Uppers[CHOOSE i \in 1..Len(Lowers) : Lowers[i] = c]
    ELSE c

Lower(s) == [i \in 1..Len(s) |-> LowerChar(s[i])]
Upper(s) == [i \in 1..Len(s) |-> UpperChar(s[i])]

EndsWith(s, suf) ==
    /\ Len(s) >= Len(suf)
    /\ SubSeq(s, Len(s) - Len(suf) + 1, Len(s)) = suf

StartsWith(s, pre) ==
    /\ Len(s) >= Len(pre)
    /\ SubSeq(s, 1, Len(pre)) = pre

\* Python's "sub in s"
Contains(s, sub) ==
    \E i \in 1..(Len(s) - Len(sub) + 1) : SubSeq(s, i, i + Len(sub) - 1) = sub

\* s.rsplit('.', 1)[0]: everything before the last period, s when it has none
RsplitDot(s) ==
    IF \E i \in 1..Len(s) : s[i] = "."
    THEN LET last == CHOOSE i \in 1..Len(s) :
                        /\ s[i] = "."
                        /\ \A j \in (i+1)..Len(s) : s[j] # "."
         IN  SubSeq(s, 1, last - 1)
    ELSE s

\* s.replace(old, new): every non-overlapping occurrence, left to right
RECURSIVE Replace(_, _, _)
Replace(s, old, new) ==
    IF Len(s) < Len(old) THEN s
    ELSE IF SubSeq(s, 1, Len(old)) = old
         THEN new \o Replace(SubSeq(s, Len(old) + 1, Len(s)), old, new)
         ELSE <<s[1]>> \o Replace(Tail(s), old, new)

DotShp == <<".","s","h","p">>
DotShx == <<".","s","h","x">>
DotDbf == <<".","d","b","f">>
DotPrj == <<".","p","r","j">>
DotCpg == <<".","c","p","g">>
DotZip == <<".","z","i","p">>
FmtSHP == <<"S","H","P">>
FmtZIP == <<"Z","I","P">>

---------------------------------------------------------------------------
(* Catalog client: get_territory_list *)

\* A JSON value under a key of a resource object: the key is absent, holds
\* null, or holds a string.
Absent == [tag |-> "absent", s |-> <<>>]
Null   == [tag |-> "null",   s |-> <<>>]
Str(s) == [tag |-> "str",    s |-> s]

\* The empty dict
EmptyMap == [x \in {} |-> <<>>]

\* resources[name] = url
Put(m, name, url) == (name :> url) @@ m

\* res.get(key, ''): the default only when the key is absent
GetOrEmpty(v) == IF v.tag = "absent" THEN Str(<<>>) ELSE v

\* res.get('name'): None when the key is absent
GetOrNone(v) == IF v.tag = "absent" THEN Null ELSE v

\* Python truthiness of None or a string
Truthy(v) == v.tag = "str" /\ v.s # <<>>

\* Lines 35-38 raise AttributeError on a null format (None.upper()) and, when
\* the format test is false, on a null url (None.lower()).
EntryRaises(res) ==
    LET fmt == GetOrEmpty(res.format)
        url == GetOrEmpty(res.url)
    IN  \/ fmt.tag = "null"
        \/ /\ Upper(fmt.s) \notin {FmtSHP, FmtZIP}
           /\ url.tag = "null"

\* Line 38
EntryMatches(res) ==
    LET fmt == GetOrEmpty(res.format)
        url == GetOrEmpty(res.url)
    IN  \/ Upper(fmt.s) \in {FmtSHP, FmtZIP}
        \/ EndsWith(Lower(url.s), DotZip)

\* Lines 34-41: the loop over data['result']['resources'], from entry i on.
\* The result is [raised, map].
RECURSIVE CollectResources(_, _, _)
CollectResources(rs, i, m) ==
    IF i > Len(rs) THEN [raised |-> FALSE, map |-> m]
    ELSE IF EntryRaises(rs[i]) THEN [raised |-> TRUE, map |-> m]
    ELSE IF /\ EntryMatches(rs[i])
            /\ Truthy(GetOrNone(rs[i].name))
            /\ Truthy(GetOrEmpty(rs[i].url))
         THEN CollectResources(rs, i + 1,
                  Put(m, GetOrNone(rs[i].name).s, GetOrEmpty(rs[i].url).s))
         ELSE CollectResources(rs, i + 1, m)

\* Lines 27-45. resp.kind: "error" (the request, raise_for_status or the JSON
\* parse raises), "nosuccess" (success is false or missing), "noresult"
\* (success is true and result.resources is missing), "ok".
GetTerritoryList(resp) ==
    IF resp.kind \in {"error", "noresult"} THEN EmptyMap
    ELSE IF resp.kind = "nosuccess" THEN EmptyMap
    ELSE LET r == CollectResources(resp.resources, 1, EmptyMap)
         IN  IF r.raised THEN EmptyMap ELSE r.map

MaxResources == 2

NameValues   == {Absent, Str(<<>>), Str(<<"A">>), Str(<<"B">>)}
FormatValues == {Absent, Null, Str(<<"S","h","p">>), Str(FmtZIP)}
UrlValues    == {Null, Str(<<>>), Str(<<"x",".","Z","i","p">>),
                 Str(<<"z",".","c","s","v">>)}

ResourceEntries == [name : NameValues, format : FormatValues, url : UrlValues]

SeqsUpTo(S, n) == UNION {[1..k -> S] : k \in 0..n}

Responses ==
    {[kind |-> k, resources |-> <<>>] : k \in {"error", "nosuccess", "noresult"}}
    \cup {[kind |-> "ok", resources |-> rs] :
            rs \in SeqsUpTo(ResourceEntries, MaxResources)}

---------------------------------------------------------------------------
(* Files *)

\* What a path holds. A geometry file stands for the shapefile pyshp's Reader
\* opens through it: whether it opens, len(sf.fields) (the deletion flag
\* included), its records in order, and the record at which reading raises
\* (0: none; k: iterShapeRecords raises when it fetches record k).
Dataset(nf, recs, fail) ==
    [kind |-> "shp", opens |-> TRUE, nf |-> nf, recs |-> recs, fail |-> fail,
     text |-> ""]
CorruptShp ==
    [kind |-> "shp", opens |-> FALSE, nf |-> 0, recs |-> <<>>, fail |-> 0,
     text |-> ""]
\* Any other file: an index, attribute, projection or encoding file
TextFile(t) ==
    [kind |-> "text", opens |-> FALSE, nf |-> 0, recs |-> <<>>, fail |-> 0,
     text |-> t]
\* The three files a Writer writes: nf is the number of field descriptors
\* written, recs the shapes (geometry, index) or records (attributes).
WrittenFile(kind, nf, recs) ==
    [kind |-> kind, opens |-> TRUE, nf |-> nf, recs |-> recs, fail |-> 0,
     text |-> ""]

\* F(v), with v evaluated once: a local variable assigned v
With(v, F(_)) == CHOOSE r \in {F(x) : x \in {v}} : TRUE

EmptyFs == [x \in {} |-> TextFile("")]

\* The file system with path holding content, created or overwritten
WriteFile(fsys, path, content) == (path :> content) @@ fsys

Exists(fsys, path) == path \in DOMAIN fsys

\* os.path.join(temp_dir, name)
Join(dir, name) == dir \o <<"/">> \o name

---------------------------------------------------------------------------
(* Shapefile merger: merge_shapefiles *)

\* shapefile.Reader(path) returns (it raises otherwise)
ReaderOpens(fsys, path) ==
    /\ Exists(fsys, path)
    /\ fsys[path].kind = "shp"
    /\ fsys[path].opens

\* Lines 65-73: the index of the first path that opens with more than one
\* field descriptor, 0 when there is none (first_sf stays None)
RECURSIVE FirstValid(_, _, _)
FirstValid(fsys, paths, i) ==
    IF i > Len(paths) THEN 0
    ELSE IF ReaderOpens(fsys, paths[i]) /\ fsys[paths[i]].nf > 1 THEN i
    ELSE FirstValid(fsys, paths, i + 1)

\* Lines 87-95 for one path: the records (each with its shape) that reach the
\* writer. An exception leaves the loop over the records, and what was
\* written before it stays written.
RecordsWritten(fsys, path, nfCanon) ==
    IF ~ReaderOpens(fsys, path) THEN <<>>
    ELSE IF fsys[path].nf # nfCanon THEN <<>>
    ELSE IF fsys[path].fail = 0 THEN fsys[path].recs
    ELSE SubSeq(fsys[path].recs, 1, fsys[path].fail - 1)

\* Lines 86-95
RECURSIVE MergeLoop(_, _, _, _)
MergeLoop(fsys, paths, i, nfCanon) ==
    IF i > Len(paths) THEN <<>>
    ELSE RecordsWritten(fsys, paths[i], nfCanon)
            \o MergeLoop(fsys, paths, i + 1, nfCanon)

\* Line 62: shapefile.Writer(output_path) opens (creates or truncates) the
\* geometry, index and attribute files named after the path minus extension.
OpenWriter(fsys, out) ==
    LET base == RsplitDot(out)
        f1 == WriteFile(fsys, base \o DotShp, WrittenFile("geometry", 0, <<>>))
        f2 == WriteFile(f1, base \o DotShx, WrittenFile("index", 0, <<>>))
    IN  WriteFile(f2, base \o DotDbf, WrittenFile("attributes", 0, <<>>))

\* Lines 80-83 and 97: the field descriptors but the deletion flag, and the
\* records and shapes written, reach the three files when the writer closes.
CloseWriter(fsys, out, nfCanon, recs) ==
    LET base == RsplitDot(out)
        f1 == WriteFile(fsys, base \o DotShp,
                        WrittenFile("geometry", nfCanon - 1, recs))
        f2 == WriteFile(f1, base \o DotShx,
                        WrittenFile("index", nfCanon - 1, recs))
    IN  WriteFile(f2, base \o DotDbf,
                  WrittenFile("attributes", nfCanon - 1, recs))

\* Lines 100-103
CopyPrj(fsys, paths, out) ==
    LET first_prj  == Replace(paths[1], DotShp, DotPrj)
        output_prj == Replace(out, DotShp, DotPrj)
    IN  IF Exists(fsys, first_prj)
        THEN WriteFile(fsys, output_prj, fsys[first_prj])
        ELSE fsys

\* Lines 57-105: [ret, fs]
MergeShapefiles(fsys, paths, out) ==
    IF paths = <<>> THEN [ret |-> FALSE, fs |-> fsys]
    ELSE With(OpenWriter(fsys, out), LAMBDA opened :
         With(FirstValid(opened, paths, 1), LAMBDA c :
            IF c = 0 THEN [ret |-> FALSE, fs |-> opened]
            ELSE With(MergeLoop(opened, paths, 1, opened[paths[c]].nf),
                      LAMBDA recs :
                 With(CloseWriter(opened, out, opened[paths[c]].nf, recs),
                      LAMBDA closed :
                    [ret |-> TRUE, fs |-> CopyPrj(closed, paths, out)]))))

---------------------------------------------------------------------------
(* The run: process_territories *)

KKParcel       == <<"K","K","P","a","r","c","e","l">>
KKParcelPart   == KKParcel \o <<"P","a","r","t">>
KKBuilding     == <<"K","K","B","u","i","l","d","i","n","g">>
KKBuildingPart == KKBuilding \o <<"P","a","r","t">>

TempDir == <<"t">>

ParcelsMerged   == <<"P","a","r","c","e","l","s","_","m","e","r","g","e","d">>
BuildingsMerged == <<"B","u","i","l","d","i","n","g","s","_","m","e","r","g","e","d">>

\* Line 136 and line 143
IsParcelShp(filename) ==
    /\ Contains(filename, KKParcel)
    /\ ~Contains(filename, KKParcelPart)
    /\ EndsWith(Lower(filename), DotShp)

IsBuildingShp(filename) ==
    /\ Contains(filename, KKBuilding)
    /\ ~Contains(filename, KKBuildingPart)
    /\ EndsWith(Lower(filename), DotShp)

\* Lines 138 and 145: [f for f in z.namelist() if f.startswith(base)]
RECURSIVE RelatedFiles(_, _, _)
RelatedFiles(names, base, i) ==
    IF i > Len(names) THEN <<>>
    ELSE (IF StartsWith(names[i], base) THEN <<names[i]>> ELSE <<>>)
            \o RelatedFiles(names, base, i + 1)

\* What url's archive holds under an entry name
EntryContent(url, name, count) ==
    IF EndsWith(Lower(name), DotShp)
    THEN Dataset(2, [i \in 1..count |-> <<url, name, i>>], 0)
    ELSE TextFile("sidecar")

\* Lines 136-140 (cat = "KKParcel") and 143-147 (cat = "KKBuilding") for one
\* entry of z.namelist(): the calls made, in order, when none raises.
EntrySteps(arch, types, filename, cat) ==
    IF /\ cat \in types
       /\ IF cat = "KKParcel" THEN IsParcelShp(filename)
                              ELSE IsBuildingShp(filename)
    THEN With(RelatedFiles(arch.names, RsplitDot(filename), 1), LAMBDA rfs :
            [k \in 1..Len(rfs) |->
                [op |-> "extract", cat |-> cat, name |-> rfs[k]]]
            \o <<[op |-> "append", cat |-> cat, name |-> filename]>>)
    ELSE <<>>

\* Lines 134-147: the loop over z.namelist() from entry j on
RECURSIVE LoopSteps(_, _, _)
LoopSteps(arch, types, j) ==
    IF j > Len(arch.names) THEN <<>>
    ELSE EntrySteps(arch, types, arch.names[j], "KKParcel")
            \o EntrySteps(arch, types, arch.names[j], "KKBuilding")
            \o LoopSteps(arch, types, j + 1)

\* z.extract raises on the archive's corrupt entry
StepRaises(arch, step) ==
    /\ step.op = "extract"
    /\ arch.bad # 0
    /\ arch.names[arch.bad] = step.name

\* Lines 129-150: the try block raises, at the GET or at an extraction
TerritoryRaises(arch, types) ==
    \/ ~arch.ok
    \/ \E k \in 1..Len(LoopSteps(arch, types, 1)) :
          StepRaises(arch, LoopSteps(arch, types, 1)[k])

\* Of the calls all of the loop, those made before the exception, all of
\* them when there is none: what was extracted and appended before it stays.
StepsDone(arch, all) ==
    IF ~arch.ok THEN <<>>
    ELSE IF \E k \in 1..Len(all) : StepRaises(arch, all[k])
    THEN SubSeq(all, 1,
           (CHOOSE k \in 1..Len(all) :
               /\ StepRaises(arch, all[k])
               /\ \A m \in 1..(k-1) : ~StepRaises(arch, all[m])) - 1)
    ELSE all

\* Lines 139 and 146: z.extract(rf, temp_dir) writes temp_dir/rf
ExtractedInto(fsys, url, arch, steps) ==
    With({steps[k].name : k \in {m \in 1..Len(steps) :
                                        steps[m].op = "extract"}},
         LAMBDA names :
            [p \in {Join(TempDir, n) : n \in names} |->
                EntryContent(url, CHOOSE n \in names : Join(TempDir, n) = p,
                             arch.count)]
            @@ fsys)

\* Lines 140 and 147: the paths appended to the category's list
AppendedPaths(steps, cat) ==
    With(SelectSeq(steps, LAMBDA st : st.op = "append" /\ st.cat = cat),
         LAMBDA sel : [k \in 1..Len(sel) |-> Join(TempDir, sel[k].name)])

Extensions == <<DotShp, DotShx, DotDbf, DotPrj, DotCpg>>

\* Lines 175-179: the entries written for the base names bases[b], ..., from
\* extension e on
RECURSIVE ZipEntries(_, _, _, _)
ZipEntries(fsys, bases, b, e) ==
    IF b > Len(bases) THEN EmptyFs
    ELSE IF e > Len(Extensions) THEN ZipEntries(fsys, bases, b + 1, 1)
    ELSE LET rest == ZipEntries(fsys, bases, b, e + 1)
             name == bases[b] \o Extensions[e]
         IN  IF Exists(fsys, Join(TempDir, name))
             THEN WriteFile(rest, name, fsys[Join(TempDir, name)])
             ELSE rest

\* What process_territories returns: None, or the archive's bytes (here its
\* entries, flat name -> content)
None == [some |-> FALSE, files |-> EmptyFs]
Bytes(files) == [some |-> TRUE, files |-> files]

\* Line 120: leaving the with block, by return or by exception, removes the
\* temporary directory and everything in it.
ExitScopeOnReturnOnly(fsys, raised) == IF raised THEN fsys ELSE EmptyFs

ExitScope(fsys, raised) == EmptyFs

\* Line 120: the temporary directory is created, empty
EnterScope ==
    /\ rpc = "start"
    /\ fs' = WriteFile(EmptyFs, TempDir, TextFile("dir"))
    /\ parcels_to_merge' = <<>>
    /\ buildings_to_merge' = <<>>
    /\ idx' = 1
    /\ rpc' = IF selected_names = <<>> THEN "merge_parcels" ELSE "loop"
    /\ UNCHANGED <<net, selected_names, resource_map, selected_types,
                   files_created, zip_data, calls>>
    /\ UNCHANGED <<catVars, mergeVars, uiVars>>

\* Lines 125-152: one pass of the download loop, its try/except included
ProcessTerritory ==
    /\ rpc = "loop"
    /\ \E url \in {resource_map[selected_names[idx]]} :
       \E all \in {LoopSteps(net[url], selected_types, 1)} :
       \E steps \in {StepsDone(net[url], all)} :
          /\ fs' = ExtractedInto(fs, url, net[url], steps)
          /\ parcels_to_merge' =
                parcels_to_merge \o AppendedPaths(steps, "KKParcel")
          /\ buildings_to_merge' =
                buildings_to_merge \o AppendedPaths(steps, "KKBuilding")
    /\ calls' = calls + 1
    /\ idx' = idx + 1
    /\ rpc' = IF idx = Len(selected_names) THEN "merge_parcels" ELSE "loop"
    /\ UNCHANGED <<net, selected_names, resource_map, selected_types,
                   files_created, zip_data>>
    /\ UNCHANGED <<catVars, mergeVars, uiVars>>

\* Lines 155-162
MergeParcels ==
    /\ rpc = "merge_parcels"
    /\ IF parcels_to_merge # <<>>
       THEN \E r \in {MergeShapefiles(fs, parcels_to_merge,
                                        Join(TempDir, ParcelsMerged \o DotShp))} :
                /\ fs' = r.fs
                /\ files_created' = IF r.ret THEN <<ParcelsMerged>> ELSE <<>>
       ELSE /\ fs' = fs
            /\ files_created' = <<>>
    /\ rpc' = "merge_buildings"
    /\ UNCHANGED <<net, selected_names, resource_map, selected_types, idx,
                   parcels_to_merge, buildings_to_merge, zip_data, calls>>
    /\ UNCHANGED <<catVars, mergeVars, uiVars>>

\* Lines 165-169
MergeBuildings ==
    /\ rpc = "merge_buildings"
    /\ IF buildings_to_merge # <<>>
       THEN \E r \in {MergeShapefiles(fs, buildings_to_merge,
                                        Join(TempDir, BuildingsMerged \o DotShp))} :
                /\ fs' = r.fs
                /\ files_created' = IF r.ret
                                    THEN Append(files_created, BuildingsMerged)
                                    ELSE files_created
       ELSE UNCHANGED <<fs, files_created>>
    /\ rpc' = "zip"
    /\ UNCHANGED <<net, selected_names, resource_map, selected_types, idx,
                   parcels_to_merge, buildings_to_merge, zip_data, calls>>
    /\ UNCHANGED <<catVars, mergeVars, uiVars>>

\* Lines 172-184, and the end of the with block
ZipResult ==
    /\ rpc = "zip"
    /\ zip_data' = IF files_created # <<>>
                   THEN Bytes(ZipEntries(fs, files_created, 1, 1))
                   ELSE None
    /\ fs' = ExitScope(fs, FALSE)
    /\ rpc' = "returned"
    /\ UNCHANGED <<net, selected_names, resource_map, selected_types, idx,
                   parcels_to_merge, buildings_to_merge, files_created, calls>>
    /\ UNCHANGED <<catVars, mergeVars, uiVars>>

\* An OSError of a write (the writer of lines 62-97, the copy of line 103,
\* the archive of lines 174-179) is caught nowhere: it leaves the with block.
RaiseIOError ==
    /\ \/ rpc = "merge_parcels" /\ parcels_to_merge # <<>>
       \/ rpc = "merge_buildings" /\ buildings_to_merge # <<>>
       \/ rpc = "zip" /\ files_created # <<>>
    /\ fs' = ExitScope(fs, TRUE)
    /\ rpc' = "raised"
    /\ UNCHANGED <<net, selected_names, resource_map, selected_types, idx,
                   parcels_to_merge, buildings_to_merge, files_created,
                   zip_data, calls>>
    /\ UNCHANGED <<catVars, mergeVars, uiVars>>

---------------------------------------------------------------------------
(* The page script and the "Download and Merge" button *)

NoCache == [some |-> FALSE, map |-> EmptyMap]
Cached(m) == [some |-> TRUE, map |-> m]

\* Line 20: st.cache_data returns the stored value without running the
\* function when there is one
CacheLookup(c) == c.some

MsgNone        == "none"
MsgNoTerritory == "Please select at least one territory."
MsgNoType      == "Please select at least one data type (Parcels or Buildings)."
MsgMerged      == "Merged successfully!"
MsgNoData      == "No data found for the selected criteria."
MsgException   == "exception"

\* Lines 218-222: which branch the handler takes
ValidateTerritoriesOnly(sel, types) ==
    IF sel = <<>> THEN MsgNoTerritory ELSE "ok"

Validate(sel, types) ==
    IF sel = <<>> THEN MsgNoTerritory
    ELSE IF types = {} THEN MsgNoType
    ELSE "ok"

DataTypes == {"KKParcel", "KKBuilding"}

NoRepeatSeqs(S, n) ==
    {q \in SeqsUpTo(S, n) : \A i, j \in 1..Len(q) : i # j => q[i] # q[j]}

RunIdleExceptNet ==
    /\ selected_names = <<>>
    /\ resource_map = EmptyMap
    /\ selected_types = {}
    /\ idx = 0
    /\ parcels_to_merge = <<>>
    /\ buildings_to_merge = <<>>
    /\ files_created = <<>>
    /\ zip_data = None
    /\ calls = 0
    /\ rpc = "idle"

\* Lines 191-234: one run of the script, started by the page load or by a
\* change of a control (click = FALSE) or by the button (click = TRUE), with
\* the controls holding sel and types. A run that calls process_territories
\* goes on in its steps.
ScriptRun(sel, types, click) ==
    /\ upc = "idle"
    /\ LET hit == CacheLookup(cache)
           map == IF hit THEN cache.map ELSE GetTerritoryList(response)
           go  == map # EmptyMap /\ click /\ Validate(sel, types) = "ok"
       IN  /\ cache' = Cached(map)
           /\ rendered' = (map # EmptyMap)
           /\ message' = IF map # EmptyMap /\ click /\ ~go
                         THEN Validate(sel, types) ELSE MsgNone
           /\ upc' = IF go THEN "running" ELSE "idle"
           /\ rpc' = IF go THEN "start" ELSE "idle"
           /\ selected_names' = IF go THEN sel ELSE <<>>
           /\ resource_map' = IF go THEN map ELSE EmptyMap
           /\ selected_types' = IF go THEN types ELSE {}
           /\ calls' = IF hit THEN 0 ELSE 1
    /\ w_sel' = sel
    /\ w_types' = types
    /\ clicked' = click
    /\ idx' = 0
    /\ parcels_to_merge' = <<>>
    /\ buildings_to_merge' = <<>>
    /\ files_created' = <<>>
    /\ zip_data' = None
    /\ fs' = EmptyFs
    /\ UNCHANGED <<catVars, mergeVars, net>>

\* The first run, and every run that follows one that drew no controls:
\* nothing is selected but the default data type, and there is no button.
PageLoad ==
    /\ ~rendered
    /\ ScriptRun(<<>>, {"KKParcel"}, FALSE)

\* A run started from the drawn controls
UserAction ==
    /\ rendered
    /\ \E sel \in NoRepeatSeqs(DOMAIN cache.map, Cardinality(DOMAIN cache.map)),
          types \in SUBSET DataTypes, click \in BOOLEAN :
            ScriptRun(sel, types, click)

\* Lines 223-234: process_territories has returned, or raised
RunFinish ==
    /\ upc = "running"
    /\ rpc \in {"returned", "raised"}
    /\ message' = IF rpc = "raised" THEN MsgException
                  ELSE IF zip_data.some THEN MsgMerged ELSE MsgNoData
    /\ upc' = "idle"
    /\ UNCHANGED <<cache, rendered, w_sel, w_types, clicked>>
    /\ UNCHANGED <<catVars, mergeVars, fs, runVars>>

---------------------------------------------------------------------------
(* The merger's inputs *)

MaxPaths  == 3
MaxFields == 3
MaxRecs   == 2

FileA == Join(TempDir, <<"a">> \o DotShp)
FileB == Join(TempDir, <<"b">> \o DotShp)
FileC == Join(TempDir, <<"c",".","S","H","P">>)
PathPool == <<FileA, FileB, FileC>>
PrjPool  == {Join(TempDir, <<"a">> \o DotPrj), Join(TempDir, <<"c">> \o DotPrj)}

OutputPath == Join(TempDir, ParcelsMerged \o DotShp)
OutShp == Join(TempDir, ParcelsMerged \o DotShp)
OutShx == Join(TempDir, ParcelsMerged \o DotShx)
OutDbf == Join(TempDir, ParcelsMerged \o DotDbf)
OutPrj == Join(TempDir, ParcelsMerged \o DotPrj)

\* The records of the k-th file of the pool: <<k, 1>>, ..., <<k, n>>
Recs(k, n) == [i \in 1..n |-> <<k, i>>]

PoolIndex(path) == CHOOSE k \in 1..Len(PathPool) : PathPool[k] = path

\* What a listed path may be: missing, a file that does not open, or a
\* shapefile with nf field descriptors and n records whose reading raises at
\* record fail (0: never). A shapefile with the deletion flag as its only
\* field descriptor is never the canonical source and never matches one, so
\* its records are not enumerated.
FileShapes ==
    {[state |-> st, nf |-> 0, n |-> 0, fail |-> 0] : st \in {"missing", "corrupt"}}
    \cup {[state |-> "valid", nf |-> 1, n |-> 0, fail |-> 0]}
    \cup {[state |-> "valid", nf |-> nf, n |-> n, fail |-> f] :
            nf \in 2..MaxFields, n \in 0..MaxRecs, f \in 0..MaxRecs}

Range(seq) == {seq[i] : i \in 1..Len(seq)}

\* The disk that holds the listed paths as `shape` says, and the projection
\* files prjs
DiskOf(paths, shape, prjs) ==
    LET shps == {pth \in Range(paths) : shape[pth].state # "missing"}
    IN  [x \in shps \cup prjs |->
            IF x \in prjs THEN TextFile("prj")
            ELSE IF shape[x].state = "corrupt" THEN CorruptShp
            ELSE Dataset(shape[x].nf, Recs(PoolIndex(x), shape[x].n),
                         shape[x].fail)]

---------------------------------------------------------------------------
(* Specifications *)

vars == <<catVars, mergeVars, fs, runVars, uiVars>>

CatIdle ==
    /\ response = [kind |-> "error", resources |-> <<>>]
    /\ resources = EmptyMap
    /\ cpc = "idle"

MergeIdle ==
    /\ disk = EmptyFs
    /\ file_paths = <<>>
    /\ ret = FALSE
    /\ mpc = "idle"

UrlX == <<"x",".","Z","i","p">>
UrlZ == <<"z",".","c","s","v">>
NameA == <<"A">>
NameB == <<"B">>

NoDownload == [ok |-> FALSE, names |-> <<>>, bad |-> 0, count |-> 0]

NetIdle == net = [u \in {UrlX, UrlZ} |-> NoDownload]

RunIdle == NetIdle /\ RunIdleExceptNet

UiIdle ==
    /\ cache = NoCache
    /\ rendered = FALSE
    /\ w_sel = <<>>
    /\ w_types = {}
    /\ clicked = FALSE
    /\ message = MsgNone
    /\ upc = "off"

\* The catalog client alone, on every response within the bounds
CatInit ==
    /\ response \in Responses
    /\ resources = EmptyMap
    /\ cpc = "call"
    /\ MergeIdle /\ fs = EmptyFs /\ RunIdle /\ UiIdle

CallGetTerritoryList ==
    /\ cpc = "call"
    /\ resources' = GetTerritoryList(response)
    /\ cpc' = "done"
    /\ UNCHANGED <<response, mergeVars, fs, runVars, uiVars>>

SpecCatalog == CatInit /\ [][CallGetTerritoryList]_vars

\* The merger alone, on every list of paths and disk within the bounds
MergeInit ==
    /\ file_paths \in SeqsUpTo(Range(PathPool), MaxPaths)
    /\ disk \in {DiskOf(file_paths, shape, prjs) :
                    shape \in [Range(file_paths) ->
                                 {sh \in FileShapes : sh.fail <= sh.n}],
                    prjs \in SUBSET PrjPool}
    /\ fs = disk
    /\ ret = FALSE
    /\ mpc = "call"
    /\ CatIdle /\ RunIdle /\ UiIdle

CallMergeShapefiles ==
    /\ mpc = "call"
    /\ LET r == MergeShapefiles(fs, file_paths, OutputPath)
       IN  /\ fs' = r.fs
           /\ ret' = r.ret
    /\ mpc' = "done"
    /\ UNCHANGED <<disk, file_paths, catVars, runVars, uiVars>>

SpecMerge == MergeInit /\ [][CallMergeShapefiles]_vars

\* One run of process_territories, on every selection and every answer of
\* the network within the bounds. The interpreter runs the function to its
\* end: every step that can be taken is taken.
MaxEntries == 2

EntryPool == {KKParcel \o DotShp, KKParcel \o DotDbf, KKParcelPart \o DotShp,
              KKBuilding \o DotShp}

\* The archives a url may answer with: none (the GET fails), or entries in
\* some order, the last of which may be corrupt, whose shapefiles hold count
\* records each
Archives(count) ==
    {NoDownload}
    \cup UNION {{[ok |-> TRUE, names |-> ns, bad |-> b, count |-> count] :
                    b \in {0, Len(ns)}} :
                 ns \in NoRepeatSeqs(EntryPool, MaxEntries)}

RecordsAt == [u \in {UrlX, UrlZ} |-> IF u = UrlX THEN 1 ELSE 2]

TerritoryMap == [n \in {NameA, NameB} |-> IF n = NameA THEN UrlX ELSE UrlZ]

RunInit ==
    /\ selected_names \in NoRepeatSeqs({NameA, NameB}, 2) \ {<<>>}
    /\ resource_map = TerritoryMap
    /\ selected_types \in (SUBSET DataTypes) \ {{}}
    /\ net \in {n \in [{UrlX, UrlZ} -> Archives(1) \cup Archives(2)] :
                  \A u \in {UrlX, UrlZ} :
                     IF \E i \in 1..Len(selected_names) :
                           resource_map[selected_names[i]] = u
                     THEN n[u] \in Archives(RecordsAt[u])
                     ELSE n[u] = NoDownload}
    /\ fs = EmptyFs
    /\ idx = 0
    /\ parcels_to_merge = <<>>
    /\ buildings_to_merge = <<>>
    /\ files_created = <<>>
    /\ zip_data = None
    /\ calls = 0
    /\ rpc = "start"
    /\ CatIdle /\ MergeIdle /\ UiIdle

RunNext ==
    \/ EnterScope
    \/ ProcessTerritory
    \/ MergeParcels
    \/ MergeBuildings
    \/ ZipResult
    \/ RaiseIOError

SpecRun == RunInit /\ [][RunNext]_vars /\ WF_vars(RunNext)

\* The page: the catalog is fetched once, the user changes the controls and
\* presses the button, and each run of process_territories goes to its end.
UiResponses ==
    {[kind |-> "error", resources |-> <<>>],
     [kind |-> "ok", resources |->
        <<[name |-> Str(NameA), format |-> Str(FmtSHP), url |-> Str(UrlX)]>>],
     [kind |-> "ok", resources |->
        <<[name |-> Str(NameA), format |-> Absent, url |-> Str(UrlX)],
          [name |-> Str(NameB), format |-> Str(FmtZIP), url |-> Str(UrlZ)]>>]}

UiArchives(count) ==
    {NoDownload,
     [ok |-> TRUE, names |-> <<KKParcel \o DotShp, KKBuilding \o DotShp>>,
      bad |-> 0, count |-> count]}

UiInit ==
    /\ response \in UiResponses
    /\ resources = EmptyMap
    /\ cpc = "idle"
    /\ net \in [{UrlX, UrlZ} -> UiArchives(1)]
    /\ RunIdleExceptNet
    /\ fs = EmptyFs
    /\ cache = NoCache
    /\ rendered = FALSE
    /\ w_sel = <<>>
    /\ w_types = {}
    /\ clicked = FALSE
    /\ message = MsgNone
    /\ upc = "idle"
    /\ MergeIdle

UiNext ==
    \/ PageLoad
    \/ UserAction
    \/ RunFinish
    \/ EnterScope
    \/ ProcessTerritory
    \/ MergeParcels
    \/ MergeBuildings
    \/ ZipResult
    \/ RaiseIOError

SpecUi == UiInit /\ [][UiNext]_vars

---------------------------------------------------------------------------
(* Claims about merge_shapefiles *)

\* The canonical schema source of the call: its index in file_paths, 0 if none
Canon == FirstValid(disk, file_paths, 1)

\* The file opens with the canonical field count and is read to its end
CompatibleWith(path, nfCanon) ==
    /\ ReaderOpens(disk, path)
    /\ disk[path].nf = nfCanon
    /\ disk[path].fail = 0

\* The records of the compatible files of paths, in list and file order
RECURSIVE ConcatCompatible(_, _, _)
ConcatCompatible(paths, i, nfCanon) ==
    IF i > Len(paths) THEN <<>>
    ELSE (IF CompatibleWith(paths[i], nfCanon) THEN disk[paths[i]].recs ELSE <<>>)
            \o ConcatCompatible(paths, i + 1, nfCanon)

RECURSIVE SumCompatible(_, _, _)
SumCompatible(paths, i, nfCanon) ==
    IF i > Len(paths) THEN 0
    ELSE (IF CompatibleWith(paths[i], nfCanon) THEN Len(disk[paths[i]].recs) ELSE 0)
            + SumCompatible(paths, i + 1, nfCanon)

Without(seq, i) == SubSeq(seq, 1, i - 1) \o SubSeq(seq, i + 1, Len(seq))

(* C1: when a canonical schema is established, the output's records (and    *)
(* shapes) are the concatenation, in list order and file order, of the      *)
(* records of the inputs that open with the canonical field count (and are  *)
(* read to their end: C10 has the others contribute nothing); their number  *)
(* is the sum of those files' record counts; and the list without one       *)
(* incompatible file yields the same number of records.                     *)
C1_Claim ==
    (mpc = "done" /\ Canon # 0) =>
        LET nfCanon == disk[file_paths[Canon]].nf
            expected == ConcatCompatible(file_paths, 1, nfCanon)
        IN  /\ ret = TRUE
            /\ fs[OutDbf].recs = expected
            /\ fs[OutShp].recs = expected
            /\ Len(fs[OutDbf].recs) = SumCompatible(file_paths, 1, nfCanon)
            /\ \A i \in 1..Len(file_paths) :
                  (/\ ReaderOpens(disk, file_paths[i])
                   /\ disk[file_paths[i]].nf # nfCanon)
                  => LET r == MergeShapefiles(disk, Without(file_paths, i),
                                              OutputPath)
                     IN  /\ r.ret = TRUE
                         /\ Len(r.fs[OutDbf].recs) = Len(fs[OutDbf].recs)

(* C2: when no canonical schema can be established (the list is empty, or   *)
(* no listed file opens with more than one field descriptor), the call      *)
(* returns failure and no geometry, index or attribute file exists at the   *)
(* output path.                                                             *)
C2_Claim ==
    (mpc = "done" /\ Canon = 0) =>
        /\ ret = FALSE
        /\ ~Exists(fs, OutShp)
        /\ ~Exists(fs, OutShx)
        /\ ~Exists(fs, OutDbf)

\* The projection sidecar of a geometry path: the path minus extension, .prj
SidecarOf(path) == RsplitDot(path) \o DotPrj

(* C9: after a successful merge the output's projection file exists exactly *)
(* when the first listed path has a projection sidecar, whatever the letter *)
(* case of that path's extension and whichever input was canonical; it then *)
(* holds the sidecar's content; and the output's geometry, index and        *)
(* attribute files are as the writer closed them.                           *)
C9_Claim ==
    (mpc = "done" /\ ret = TRUE) =>
        LET sidecar == SidecarOf(file_paths[1])
            nfCanon == disk[file_paths[Canon]].nf
            closed  == CloseWriter(disk, OutputPath, nfCanon,
                                   MergeLoop(disk, file_paths, 1, nfCanon))
        IN  /\ Exists(fs, OutPrj) <=> Exists(disk, sidecar)
            /\ Exists(fs, OutPrj) => fs[OutPrj] = disk[sidecar]
            /\ \A f \in {OutShp, OutShx, OutDbf} : fs[f] = closed[f]

\* Opening or reading the file fails at some point
FailsToRead(path) ==
    \/ ~ReaderOpens(disk, path)
    \/ disk[path].fail # 0

Occurs(rec, seq) == \E j \in 1..Len(seq) : seq[j] = rec

(* C10: every input contributes all of its record+shape pairs or none: a    *)
(* file whose opening or reading fails at any point, partway through its    *)
(* records included, leaves no record and no shape in the output, and the   *)
(* paths after it are still merged.                                         *)
C10_Claim ==
    (mpc = "done" /\ ret = TRUE) =>
        LET nfCanon == disk[file_paths[Canon]].nf
        IN  \A i \in 1..Len(file_paths) :
              LET path == file_paths[i]
                  mine == IF Exists(disk, path) THEN Range(disk[path].recs) ELSE {}
                  kept == {r \in mine : Occurs(r, fs[OutDbf].recs)
                                          \/ Occurs(r, fs[OutShp].recs)}
              IN  /\ kept = {} \/ kept = mine
                  /\ FailsToRead(path) => kept = {}
                  /\ (CompatibleWith(path, nfCanon) /\ ~FailsToRead(path))
                        => kept = mine

---------------------------------------------------------------------------
(* Claims about process_territories *)

ArchiveOf(name) == net[resource_map[name]]

\* The download or the archive processing of the territory fails at some point
Failed(name) == TerritoryRaises(ArchiveOf(name), selected_types)

\* The geometry entries of names[j..] that match category cat, as paths
RECURSIVE MatchingPaths(_, _, _)
MatchingPaths(names, j, cat) ==
    IF j > Len(names) THEN <<>>
    ELSE (IF /\ cat \in selected_types
             /\ IF cat = "KKParcel" THEN IsParcelShp(names[j])
                                    ELSE IsBuildingShp(names[j])
          THEN <<Join(TempDir, names[j])>> ELSE <<>>)
            \o MatchingPaths(names, j + 1, cat)

\* What the territories selected[i..] that do not fail contribute, in order
RECURSIVE Contributions(_, _, _)
Contributions(selected, i, cat) ==
    IF i > Len(selected) THEN <<>>
    ELSE (IF Failed(selected[i]) THEN <<>>
          ELSE MatchingPaths(ArchiveOf(selected[i]).names, 1, cat))
            \o Contributions(selected, i + 1, cat)

(* C3: when the download or archive processing of a territory fails at any  *)
(* point, the territories after it are still processed, and at the end of   *)
(* the loop the merge inputs hold no path of a failed territory and every   *)
(* matching path of each territory that did not fail.                       *)
C3_Claim ==
    /\ rpc = "loop" => idx <= Len(selected_names)
    /\ rpc = "merge_parcels" =>
          /\ idx = Len(selected_names) + 1
          /\ parcels_to_merge = Contributions(selected_names, 1, "KKParcel")
          /\ buildings_to_merge = Contributions(selected_names, 1, "KKBuilding")

\* The number of records a territory's matching parcel shapefiles hold
ParcelCount(name) ==
    Len(MatchingPaths(ArchiveOf(name).names, 1, "KKParcel"))
        * ArchiveOf(name).count

RECURSIVE SumParcelCounts(_, _)
SumParcelCounts(selected, i) ==
    IF i > Len(selected) THEN 0
    ELSE ParcelCount(selected[i]) + SumParcelCounts(selected, i + 1)

AllDownloaded ==
    \A i \in 1..Len(selected_names) :
        /\ ArchiveOf(selected_names[i]).ok
        /\ ArchiveOf(selected_names[i]).bad = 0

(* C4: with only Parcels selected and every selected archive downloaded,    *)
(* the delivered archive holds Parcels_merged (.shp, .shx, .dbf) with as    *)
(* many records as the selected territories' matching parcel shapefiles     *)
(* hold together, whatever the entries are called (two archives may use     *)
(* the same entry name), and no Buildings_merged entry.                     *)
C4_Claim ==
    (/\ rpc = "returned"
     /\ selected_types = {"KKParcel"}
     /\ AllDownloaded
     /\ Contributions(selected_names, 1, "KKParcel") # <<>>) =>
        /\ zip_data.some
        /\ \A e \in {DotShp, DotShx, DotDbf} :
              Exists(zip_data.files, ParcelsMerged \o e)
        /\ Len(zip_data.files[ParcelsMerged \o DotDbf].recs)
              = SumParcelCounts(selected_names, 1)
        /\ Len(zip_data.files[ParcelsMerged \o DotShp].recs)
              = SumParcelCounts(selected_names, 1)
        /\ \A f \in DOMAIN zip_data.files : ~StartsWith(f, BuildingsMerged)

Ended == rpc \in {"returned", "raised"}

(* C5: every run of process_territories ends, and once it has ended, by     *)
(* returning an archive, by returning nothing or by an exception, the       *)
(* temporary directory and everything in it is gone.                        *)
C5_ScratchReleased == <>Ended /\ [](Ended => fs = EmptyFs)

\* A run that extracted parcel files and then left by an exception
C5_Witness ==
    /\ rpc = "raised"
    /\ parcels_to_merge # <<>>
    /\ fs = EmptyFs

\* The entries of an archive that share the path minus extension of one of
\* its geometry entries matching a requested category
GroupEntries(arch) ==
    {n \in Range(arch.names) :
        \E g \in Range(arch.names) :
            /\ \/ "KKParcel" \in selected_types /\ IsParcelShp(g)
               \/ "KKBuilding" \in selected_types /\ IsBuildingShp(g)
            /\ RsplitDot(n) = RsplitDot(g)}

Extracted == DOMAIN fs \ {TempDir}

(* C8: of every archive processed, exactly the entries that share the path  *)
(* minus extension of a geometry entry matching a requested category are    *)
(* extracted; an entry with another base name (a KKParcelPart file) never   *)
(* is.                                                                      *)
C8_Claim ==
    rpc = "merge_parcels" =>
        LET wanted == UNION {{Join(TempDir, n) :
                                n \in IF ArchiveOf(selected_names[i]).ok
                                      THEN GroupEntries(ArchiveOf(selected_names[i]))
                                      ELSE {}} :
                             i \in 1..Len(selected_names)}
        IN  /\ Extracted \subseteq wanted
            /\ (\A i \in 1..Len(selected_names) : ~Failed(selected_names[i]))
                  => Extracted = wanted

---------------------------------------------------------------------------
(* Claims about the page and the catalog client *)

(* C6: a press of the button with a territory selected and no data type     *)
(* selected ends with the validation message, without any network request   *)
(* in that script run, without a call of process_territories and without    *)
(* an archive.                                                              *)
C6_RejectedBeforeNetwork ==
    (upc = "idle" /\ clicked /\ w_sel # <<>> /\ w_types = {}) =>
        /\ message = MsgNoType
        /\ calls = 0
        /\ rpc = "idle"
        /\ ~zip_data.some

C6_Witness ==
    /\ upc = "idle" /\ clicked /\ w_sel # <<>> /\ w_types = {}
    /\ message = MsgNoType
    /\ cache.some

\* An entry the keep rule names: format SHP or ZIP in any case or a url that
\* ends in .zip in any case, and a name and a url
KeepRule(res) ==
    /\ res.name.tag = "str" /\ res.name.s # <<>>
    /\ res.url.tag = "str" /\ res.url.s # <<>>
    /\ \/ res.format.tag = "str" /\ Upper(res.format.s) \in {FmtSHP, FmtZIP}
       \/ EndsWith(Lower(res.url.s), DotZip)

\* A response that is no successful answer with a list of resources, or that
\* holds a resource whose format is null, or whose url is null while its
\* format is neither SHP nor ZIP
Malformed(resp) ==
    \/ resp.kind # "ok"
    \/ \E i \in 1..Len(resp.resources) :
          LET res == resp.resources[i]
          IN  \/ res.format.tag = "null"
              \/ /\ res.url.tag = "null"
                 /\ ~(res.format.tag = "str"
                        /\ Upper(res.format.s) \in {FmtSHP, FmtZIP})

Holds(m, res) ==
    /\ res.name.tag = "str"
    /\ res.name.s \in DOMAIN m
    /\ res.url.tag = "str"
    /\ m[res.name.s] = res.url.s

(* C7: a malformed or unsuccessful response yields the empty      *)
(* mapping; otherwise an entry is in the mapping (its name maps to its url) *)
(* exactly when the keep rule names it, and the mapping holds nothing else. *)
C7_Claim ==
    cpc = "done" =>
        IF Malformed(response) THEN resources = EmptyMap
        ELSE /\ \A i \in 1..Len(response.resources) :
                   KeepRule(response.resources[i])
                      <=> Holds(resources, response.resources[i])
             /\ \A n \in DOMAIN resources :
                   \E i \in 1..Len(response.resources) :
                       /\ KeepRule(response.resources[i])
                       /\ response.resources[i].name.s = n

=============================================================================
